---- MODULE Spec2Model ----
(***************************************************************************)
(* Model of src/main.py: class DiseasePrediction.                          *)
(*                                                                         *)
(* The environment is the working directory: ./config.yaml, the two CSV    *)
(* files the configuration points to, the persisted *.joblib model files   *)
(* and feature_correlation.png, plus numpy's process-global random state.  *)
(* The program state is one DiseasePrediction object (the variable self,   *)
(* rebound by every successful constructor call, so that a later instance  *)
(* sees the files an earlier one wrote) and the outcome of the last call.  *)
(*                                                                         *)
(* Python values are encoded uniformly so that they can be compared:       *)
(*   - None in a string field is the string NoneV;                         *)
(*   - an absent dict key is the empty sequence, a present one <<v>>;      *)
(*   - an attribute that was never assigned is the record Unset;           *)
(*   - the 132 symptom values of a row are abstracted to one small         *)
(*     integer, the width of a table is kept as a number.                  *)
(***************************************************************************)
EXTENDS Integers, Sequences, FiniteSets, TLC

VARIABLES
    cfgFile,    \* ./config.yaml: [status, content]
    trainCsv,   \* file at dataset.training_data_path
    testCsv,    \* file at dataset.test_data_path
    rng,        \* numpy's global RandomState (position in its stream)
    models,     \* persisted classifiers: path -> classifier
    png,        \* TRUE once feature_correlation.png has been written
    self,       \* the DiseasePrediction instance the caller holds
    out,        \* outcome of the last call: op, arguments, exception, result
                \* (for _train_val_split, data is the split returned before)
    lastSplit   \* what the last direct _train_val_split call returned

vars == <<cfgFile, trainCsv, testCsv, rng, models, png, self, out, lastSplit>>

env == <<cfgFile, trainCsv, testCsv>>

----------------------------------------------------------------------------
(* Bounds of the model and constants of the program.                       *)

MaxRows == 5            \* rows of the largest training table
RngPeriod == 2          \* positions of the global random stream modelled
MaxTestData == 3        \* rows of the largest caller-provided test_data;
                        \* Testing.csv holds one row less

FeatureWidth == 132     \* assert len(...iloc[0]) == 132
CvFolds == 3            \* cross_val_score(..., cv=3)

NoneV == "<None>"
Unset == [tag |-> "unset"]
NoExc == "none"

Max(a, b) == IF a > b THEN a ELSE b

\* ceil(n * pct / 100)
CeilPct(n, pct) == (n * pct + 99) \div 100

ModelNames == {"mnb", "decision_tree", "random_forest", "gradient_boost"}
NameArgs == ModelNames \cup {"svm", NoneV}

FeatVals == {0, 1}

----------------------------------------------------------------------------
(* The environment: configuration files and CSV tables.                    *)

GoodModel ==
    [decision_tree |-> [criterion |-> "gini"],
     random_forest |-> [n_estimators |-> 10],
     gradient_boost |-> [n_estimators |-> 5, criterion |-> "friedman_mse"]]

\* a gradient_boost criterion the library rejects when fitting
BadModel ==
    [decision_tree |-> [criterion |-> "gini"],
     random_forest |-> [n_estimators |-> 10],
     gradient_boost |-> [n_estimators |-> 5, criterion |-> "gini"]]

Dataset(vs) ==
    [training_data_path |-> "./Training.csv",
     test_data_path |-> "./Testing.csv",
     validation_size |-> vs]

\* a YAML mapping; every key optional
Dict(verbose, msp, ds, rs, m) ==
    [tag |-> "dict", verbose |-> verbose, model_save_path |-> msp,
     dataset |-> ds, random_state |-> rs, model |-> m]

EmptyDict == Dict(<<>>, <<>>, <<>>, <<>>, <<>>)

MkConfig(msp, vs, rs, m) == Dict(<<TRUE>>, msp, <<Dataset(vs)>>, rs, <<m>>)

ExistingDirs == {"./models/"}

Mappings ==
    {MkConfig(<<"./models/">>, 60, rs, GoodModel) : rs \in {<<>>, <<0>>, <<2>>}}
    \cup {MkConfig(<<"./models/">>, 20, <<0>>, GoodModel),
          MkConfig(<<"./models/">>, 60, <<0>>, BadModel),
          MkConfig(<<"./nodir/">>, 60, <<0>>, GoodModel),
          MkConfig(<<>>, 60, <<0>>, GoodModel),
          Dict(<<TRUE>>, <<"./models/">>, <<Dataset(60)>>, <<0>>, <<>>),
          Dict(<<TRUE>>, <<"./models/">>, <<>>, <<0>>, <<GoodModel>>),
          EmptyDict}

\* what yaml.safe_load can hand back that is no mapping
NonMappings == {[tag |-> "list"], [tag |-> "null"]}

ConfigFiles ==
    {[status |-> s, content |-> [tag |-> "null"]] :
        s \in {"absent", "unreadable", "malformed"}}
    \cup {[status |-> "ok", content |-> c] : c \in Mappings \cup NonMappings}

\* rows of a table: <<features (abstracted), prognosis>>
Feat(i) == i % 2
SameRows(n) == [i \in 1..n |-> <<Feat(i), "flu">>]
\* training rows: flu, then cold and flu in turn
MixedRows(n) ==
    [i \in 1..n |-> <<Feat(i), IF i > CvFolds /\ (i - CvFolds) % 2 = 1
                                THEN "cold" ELSE "flu">>]
\* test rows: cold, then flu
TestRows(n) == [i \in 1..n |-> <<Feat(i), IF i = 1 THEN "cold" ELSE "flu">>]

Csv(ncols, prognosis, rows) ==
    [ncols |-> ncols, prognosis |-> prognosis, rows |-> rows]

\* Training.csv: features, prognosis and one trailing column
TrainCsvs ==
    {Csv(FeatureWidth + 2, TRUE, MixedRows(MaxRows)),
     Csv(FeatureWidth + 2, TRUE, SameRows(1)),
     Csv(FeatureWidth + 2, TRUE, <<>>),
     Csv(FeatureWidth + 2, FALSE, SameRows(1)),
     Csv(FeatureWidth + 1, TRUE, SameRows(1)),
     Csv(FeatureWidth + 1, TRUE, <<>>),
     Csv(FeatureWidth + 3, TRUE, SameRows(1))}

\* Testing.csv: features and prognosis
TestCsvs ==
    {Csv(FeatureWidth + 1, TRUE, TestRows(MaxTestData - 1)),
     Csv(FeatureWidth + 1, TRUE, <<>>),
     Csv(FeatureWidth, TRUE, TestRows(MaxTestData - 1)),
     Csv(FeatureWidth + 2, TRUE, TestRows(MaxTestData - 1))}

----------------------------------------------------------------------------
(* Tables in memory.                                                       *)

Frame(width, rows) == [tag |-> "df", width |-> width, rows |-> rows]
Series(vals) == [tag |-> "series", vals |-> vals]

\* pd.read_csv
ReadCsv(csv) ==
    [tag |-> "df", ncols |-> csv.ncols, prognosis |-> csv.prognosis,
     rows |-> csv.rows]

\* df[df.columns[:-drop]]
FeatureColumns(df, drop) ==
    Frame(Max(df.ncols - drop, 0), [i \in 1..Len(df.rows) |-> df.rows[i][1]])

\* df['prognosis']
PrognosisColumn(df) == Series([i \in 1..Len(df.rows) |-> df.rows[i][2]])

\* the two assertions, after the column lookups that precede them
ShapeCheck(df, features, labels) ==
    IF ~df.prognosis THEN "KeyError"
    ELSE IF Len(features.rows) = 0 THEN "IndexError"
    ELSE IF features.width # FeatureWidth THEN "AssertionError"
    ELSE IF Len(labels.vals) # Len(features.rows) THEN "AssertionError"
    ELSE NoExc

Loaded(exc, features, labels, df) ==
    [exc |-> exc, features |-> features, labels |-> labels, df |-> df]

_load_train_dataset(config, csv) ==
    IF config.dataset = <<>> THEN Loaded("KeyError", Unset, Unset, Unset)
    ELSE LET df == ReadCsv(csv)
             features == FeatureColumns(df, 2)
             labels == PrognosisColumn(df)
         IN  Loaded(ShapeCheck(df, features, labels), features, labels, df)

_load_test_dataset(config, csv) ==
    IF config.dataset = <<>> THEN Loaded("KeyError", Unset, Unset, Unset)
    ELSE LET df == ReadCsv(csv)
             features == FeatureColumns(df, 1)
             labels == PrognosisColumn(df)
         IN  Loaded(ShapeCheck(df, features, labels), features, labels, df)

----------------------------------------------------------------------------
(* __init__: configuration.                                                *)

NoneCfg == [tag |-> "None"]

Get(opt, default) == IF opt = <<>> THEN default ELSE opt[1]

\* bool(self.config): None and the empty mapping are falsy
Truthy(config) == config.tag = "dict" /\ config # EmptyDict

\* variant: the handler does not reset self.config
ConfigOnFailureKeep(loaded) == loaded

\* what the except branch leaves in self.config
ConfigOnFailure(loaded) == NoneCfg

Settings(config, verbose, msp, logged) ==
    [config |-> config, verbose |-> verbose, model_save_path |-> msp,
     logged |-> logged]

\* variant: a failed load falls back to a built-in configuration
ReadConfigDefault(file) ==
    IF file.status = "ok" /\ file.content.tag = "dict"
    THEN Settings(file.content, Get(file.content.verbose, FALSE),
                  Get(file.content.model_save_path, NoneV), NoExc)
    ELSE Settings(MkConfig(<<"./models/">>, 60, <<0>>, GoodModel), FALSE,
                  "./models/", "FileNotFoundError")

\* the try/except around open and yaml.safe_load; verbose and model_save_path
\* keep the values set before the try unless both .get calls succeed
ReadConfig(file) ==
    IF file.status = "absent"
    THEN Settings(ConfigOnFailure(Unset), FALSE, NoneV, "FileNotFoundError")
    ELSE IF file.status = "unreadable"
    THEN Settings(ConfigOnFailure(Unset), FALSE, NoneV, "PermissionError")
    ELSE IF file.status = "malformed"
    THEN Settings(ConfigOnFailure(Unset), FALSE, NoneV, "YAMLError")
    ELSE IF file.content.tag # "dict"
    THEN Settings(ConfigOnFailure(file.content), FALSE, NoneV, "AttributeError")
    ELSE Settings(file.content, Get(file.content.verbose, FALSE),
                  Get(file.content.model_save_path, NoneV), NoExc)

----------------------------------------------------------------------------
(* The instance.                                                           *)

NoInstance == [tag |-> "none"]

Obj(model_name, st, tr, te) ==
    [tag |-> "obj", verbose |-> st.verbose, model_name |-> model_name,
     model_save_path |-> st.model_save_path, config |-> st.config,
     train_features |-> tr.features, train_labels |-> tr.labels,
     train_df |-> tr.df,
     test_features |-> te.features, test_labels |-> te.labels,
     test_df |-> te.df,
     clf |-> Unset]

NotLoaded == Loaded(NoExc, Unset, Unset, Unset)

NoneRet == [tag |-> "None"]
NoArg == [tag |-> "None"]

Outcome(op, name, data, exc, ret) ==
    [op |-> op, name |-> name, data |-> data, exc |-> exc, ret |-> ret]

\* DiseasePrediction(model_name=name)
Construct(name) ==
    LET st == ReadConfig(cfgFile)
        tr == _load_train_dataset(st.config, trainCsv)
        te == _load_test_dataset(st.config, testCsv)
    IN  /\ IF ~Truthy(st.config)
           THEN /\ self' = Obj(name, st, NotLoaded, NotLoaded)
                /\ out' = Outcome("__init__", name, NoArg, NoExc, NoneRet)
                /\ png' = png
           ELSE IF tr.exc # NoExc
           THEN /\ out' = Outcome("__init__", name, NoArg, tr.exc, NoneRet)
                /\ UNCHANGED <<self, png>>
           ELSE IF te.exc # NoExc
           THEN /\ out' = Outcome("__init__", name, NoArg, te.exc, NoneRet)
                /\ UNCHANGED <<self, png>>
           ELSE /\ self' = Obj(name, st, tr, te)
                /\ out' = Outcome("__init__", name, NoArg, NoExc, NoneRet)
                /\ png' = TRUE      \* _feature_correlation: plt.savefig
        /\ UNCHANGED <<env, rng, models, lastSplit>>

----------------------------------------------------------------------------
(* _train_val_split.                                                       *)

\* variant: the configured seed is ignored
RandomStateGlobal(config, g) == [seed |-> g, next |-> (g + 1) % RngPeriod]

\* random_state=self.config.get('random_state', None): a generator of its
\* own for a seed; for None the process-global one, which a draw moves on
RandomState(config, g) ==
    IF config.random_state = <<>>
    THEN [seed |-> g, next |-> (g + 1) % RngPeriod]
    ELSE [seed |-> config.random_state[1], next |-> g]

\* the permutation the shuffle draws for a seed (abstracted to a rotation)
Permutation(seed, n) == [i \in 1..n |-> ((i - 1 + seed) % n) + 1]

Pick(s, idx) == [i \in 1..Len(idx) |-> s[idx[i]]]

SplitRet(Xt, yt, Xv, yv) ==
    [tag |-> "split", X_train |-> Xt, y_train |-> yt, X_val |-> Xv, y_val |-> yv]

\* train_test_split(X, y, test_size, random_state): sizes are validated
\* before anything is drawn
train_test_split(X, y, pct, seed) ==
    LET n == Len(X.rows)
        n_test == CeilPct(n, pct)
        n_train == n - n_test
        perm == Permutation(seed, n)
        ind_test == SubSeq(perm, 1, n_test)
        ind_train == SubSeq(perm, n_test + 1, n_test + n_train)
    IN  IF n = 0 \/ n_train = 0
        THEN [exc |-> "ValueError", ret |-> NoneRet]
        ELSE [exc |-> NoExc,
              ret |-> SplitRet(Frame(X.width, Pick(X.rows, ind_train)),
                               Series(Pick(y.vals, ind_train)),
                               Frame(X.width, Pick(X.rows, ind_test)),
                               Series(Pick(y.vals, ind_test)))]

\* [exc, ret, rng]
_train_val_split(obj, g) ==
    IF obj.train_features = Unset
    THEN [exc |-> "AttributeError", ret |-> NoneRet, rng |-> g]
    ELSE LET rs == RandomState(obj.config, g)
             r == train_test_split(obj.train_features, obj.train_labels,
                                   obj.config.dataset[1].validation_size,
                                   rs.seed)
         IN  [exc |-> r.exc, ret |-> r.ret,
              rng |-> IF r.exc = NoExc THEN rs.next ELSE g]

TrainValSplit ==
    /\ self.tag = "obj"
    /\ LET r == _train_val_split(self, rng)
       IN  /\ out' = Outcome("_train_val_split", self.model_name, lastSplit, r.exc, r.ret)
           /\ rng' = r.rng
           /\ lastSplit' = IF r.exc = NoExc THEN r.ret ELSE lastSplit
    /\ UNCHANGED <<env, models, png, self>>

----------------------------------------------------------------------------
(* Classifiers.  A classifier is its class, its constructor parameters     *)
(* and, once fitted, the function from feature rows to labels it learnt.   *)

Clf(kind, criterion, n_estimators) ==
    [tag |-> "clf", kind |-> kind, criterion |-> criterion,
     n_estimators |-> n_estimators, fitted |-> <<>>]

\* variant: random_forest built from the gradient_boost entry, and no
\* ValueError for an unknown name
SelectClfSlip(model_name, config) ==
    IF model_name \in {"decision_tree", "random_forest", "gradient_boost"}
    THEN IF config.tag # "dict"
         THEN [exc |-> "TypeError", clf |-> Unset]
         ELSE IF config.model = <<>>
         THEN [exc |-> "KeyError", clf |-> Unset]
         ELSE LET m == config.model[1]
              IN  IF model_name = "decision_tree"
                  THEN [exc |-> NoExc,
                        clf |-> Clf("DecisionTreeClassifier",
                                    m.decision_tree.criterion, 0)]
                  ELSE IF model_name = "random_forest"
                  THEN [exc |-> NoExc,
                        clf |-> Clf("RandomForestClassifier", "-",
                                    m.gradient_boost.n_estimators)]
                  ELSE [exc |-> NoExc,
                        clf |-> Clf("GradientBoostingClassifier",
                                    m.gradient_boost.criterion,
                                    m.gradient_boost.n_estimators)]
    ELSE [exc |-> NoExc, clf |-> Clf("MultinomialNB", "-", 0)]

\* the if/elif chain of select_model: [exc, clf]
SelectClf(model_name, config) ==
    IF model_name = "mnb"
    THEN [exc |-> NoExc, clf |-> Clf("MultinomialNB", "-", 0)]
    ELSE IF model_name \in {"decision_tree", "random_forest", "gradient_boost"}
    THEN IF config.tag # "dict"
         THEN [exc |-> "TypeError", clf |-> Unset]
         ELSE IF config.model = <<>>
         THEN [exc |-> "KeyError", clf |-> Unset]
         ELSE LET m == config.model[1]
              IN  IF model_name = "decision_tree"
                  THEN [exc |-> NoExc,
                        clf |-> Clf("DecisionTreeClassifier",
                                    m.decision_tree.criterion, 0)]
                  ELSE IF model_name = "random_forest"
                  THEN [exc |-> NoExc,
                        clf |-> Clf("RandomForestClassifier", "-",
                                    m.random_forest.n_estimators)]
                  ELSE [exc |-> NoExc,
                        clf |-> Clf("GradientBoostingClassifier",
                                    m.gradient_boost.criterion,
                                    m.gradient_boost.n_estimators)]
    ELSE [exc |-> "ValueError", clf |-> Unset]

\* self.clf after select_model
ClfAfterSelect(obj, r) == IF r.exc = NoExc THEN r.clf ELSE obj.clf

SelectModel ==
    /\ self.tag = "obj"
    /\ LET r == SelectClf(self.model_name, self.config)
       IN  /\ self' = [self EXCEPT !.clf = ClfAfterSelect(self, r)]
           /\ out' = Outcome("select_model", self.model_name, NoArg, r.exc,
                             IF r.exc = NoExc THEN r.clf ELSE NoneRet)
    /\ UNCHANGED <<env, rng, models, png, lastSplit>>

Range(s) == {s[i] : i \in 1..Len(s)}
Count(s, v) == Cardinality({i \in 1..Len(s) : s[i] = v})

\* the parameter validation fit performs
ParamsValid(clf) ==
    CASE clf.kind = "MultinomialNB" -> TRUE
      [] clf.kind = "DecisionTreeClassifier" ->
            clf.criterion \in {"gini", "entropy", "log_loss"}
      [] clf.kind = "RandomForestClassifier" -> clf.n_estimators >= 1
      [] clf.kind = "GradientBoostingClassifier" ->
            /\ clf.n_estimators >= 1
            /\ clf.criterion \in {"friedman_mse", "squared_error"}

\* what a classifier can learn from (X, y): a function onto the classes seen
\* that reproduces the training rows whose features determine their label
Learnable(X, y) ==
    {f \in [FeatVals -> Range(y.vals)] :
        \A i \in 1..Len(X.rows) :
            (\A j \in 1..Len(X.rows) : X.rows[j] = X.rows[i] => y.vals[j] = y.vals[i])
                => f[X.rows[i]] = y.vals[i]}

\* classifier.fit(X, y): the outcomes fitting can have (none: fit raises)
Fits(clf, X, y) ==
    IF ~ParamsValid(clf) \/ Len(X.rows) = 0 THEN {}
    ELSE {[clf EXCEPT !.fitted = <<f>>] : f \in Learnable(X, y)}

\* classifier.predict(X): [exc, labels]
Predict(clf, X) ==
    IF clf.fitted = <<>> \/ Len(X.rows) = 0 \/ X.width # FeatureWidth
    THEN [exc |-> "ValueError", labels |-> <<>>]
    ELSE [exc |-> NoExc,
          labels |-> [i \in 1..Len(X.rows) |-> clf.fitted[1][X.rows[i]]]]

\* accuracy_score(y_true, y_pred): correct and total, or inconsistent lengths
accuracy_score(y_true, y_pred) ==
    IF Len(y_true) # Len(y_pred)
    THEN [exc |-> "ValueError", correct |-> 0, total |-> 0]
    ELSE [exc |-> NoExc,
          correct |-> Cardinality({i \in 1..Len(y_true) : y_true[i] = y_pred[i]}),
          total |-> Len(y_true)]

\* classification_report(y_true, y_pred): one line per label
classification_report(y_true, y_pred) ==
    {[label |-> c, support |-> Count(y_true, c), predicted |-> Count(y_pred, c),
      hits |-> Cardinality({i \in 1..Len(y_true) : y_true[i] = c /\ y_pred[i] = c})]
        : c \in Range(y_true) \cup Range(y_pred)}

\* cross_val_score(classifier, X_val, y_val, cv=3): stratified folds need
\* cv samples, and cv members in some class
CrossValExc(y_val) ==
    IF Len(y_val.vals) < CvFolds THEN "ValueError"
    ELSE IF \A c \in Range(y_val.vals) : Count(y_val.vals, c) < CvFolds
    THEN "ValueError"
    ELSE NoExc

----------------------------------------------------------------------------
(* train_model.                                                            *)

\* str(self.model_save_path + self.model_name + ".joblib")
DumpPath(msp, name) == msp \o name \o ".joblib"

\* evaluating the path and opening it for writing
DumpExc(msp, name) ==
    IF msp = NoneV \/ name = NoneV THEN "TypeError"
    ELSE IF msp \notin ExistingDirs THEN "FileNotFoundError"
    ELSE NoExc

\* dump(classifier, path): the files afterwards
Persist(files, path, clf) ==
    [q \in DOMAIN files \cup {path} |-> IF q = path THEN clf ELSE files[q]]

Trained(exc, obj, g, files) ==
    [exc |-> exc, self |-> obj, rng |-> g, models |-> files]

\* variant: the classifier is dumped before it is scored
AfterFitDumpFirst(obj, fc, sp, files) ==
    LET obj2 == [obj EXCEPT !.clf = fc]
        cv == CrossValExc(sp.ret.y_val)
        de == DumpExc(obj.model_save_path, obj.model_name)
        written == Persist(files, DumpPath(obj.model_save_path, obj.model_name), fc)
    IN  IF de # NoExc THEN Trained(de, obj2, sp.rng, files)
        ELSE IF cv # NoExc THEN Trained(cv, obj2, sp.rng, written)
        ELSE Trained(NoExc, obj2, sp.rng, written)

\* the statements of train_model after fit returned fc
AfterFit(obj, fc, sp, files) ==
    LET obj2 == [obj EXCEPT !.clf = fc]     \* fit returns self.clf itself
        cv == CrossValExc(sp.ret.y_val)
        de == DumpExc(obj.model_save_path, obj.model_name)
    IN  IF Predict(fc, sp.ret.X_val).exc # NoExc
        THEN Trained("ValueError", obj2, sp.rng, files)
        ELSE IF cv # NoExc THEN Trained(cv, obj2, sp.rng, files)
        ELSE IF de # NoExc THEN Trained(de, obj2, sp.rng, files)
        ELSE Trained(NoExc, obj2, sp.rng,
                     Persist(files, DumpPath(obj.model_save_path, obj.model_name), fc))

\* every way one train_model call can end
TrainOutcomes(obj, g, files) ==
    LET sp == _train_val_split(obj, g)
        sel == SelectClf(obj.model_name, obj.config)
        obj1 == [obj EXCEPT !.clf = ClfAfterSelect(obj, sel)]
        fits == Fits(sel.clf, sp.ret.X_train, sp.ret.y_train)
    IN  IF sp.exc # NoExc THEN {Trained(sp.exc, obj, sp.rng, files)}
        ELSE IF sel.exc # NoExc THEN {Trained(sel.exc, obj1, sp.rng, files)}
        ELSE IF fits = {} THEN {Trained("ValueError", obj1, sp.rng, files)}
        ELSE {AfterFit(obj, fc, sp, files) : fc \in fits}

TrainModel ==
    /\ self.tag = "obj"
    /\ \E o \in TrainOutcomes(self, rng, models) :
        /\ self' = o.self
        /\ rng' = o.rng
        /\ models' = o.models
        /\ out' = Outcome("train_model", self.model_name, NoArg, o.exc, NoneRet)
        /\ lastSplit' = lastSplit
    /\ UNCHANGED <<env, png>>

----------------------------------------------------------------------------
(* make_prediction.                                                        *)

\* variant: the suffix is left out when loading
LoadPathNoSuffix(msp, name) == msp \o name

\* str(self.model_save_path + saved_model_name + ".joblib")
LoadPath(msp, name) == msp \o name \o ".joblib"

\* the try block: [exc, clf]; every exception is caught by the handler
LoadModel(msp, name, files) ==
    IF msp = NoneV \/ name = NoneV THEN [exc |-> "TypeError", clf |-> Unset]
    ELSE IF LoadPath(msp, name) \notin DOMAIN files
    THEN [exc |-> "FileNotFoundError", clf |-> Unset]
    ELSE [exc |-> NoExc, clf |-> files[LoadPath(msp, name)]]

\* variant: test_data is ignored
PredictInputStored(obj, test_data) == obj.test_features

\* the table predicted over
PredictInput(obj, test_data) ==
    IF test_data # NoArg THEN test_data ELSE obj.test_features

ResultRet(acc, report) ==
    [tag |-> "result", accuracy |-> <<acc.correct, acc.total>>, report |-> report]

\* variant: the handler catches a missing file only
make_prediction_narrow(obj, name, test_data, files) ==
    LET ld == LoadModel(obj.model_save_path, name, files)
        pr == Predict(ld.clf, PredictInput(obj, test_data))
        acc == accuracy_score(obj.test_labels.vals, pr.labels)
    IN  IF ld.exc = "FileNotFoundError"
        THEN [exc |-> NoExc, ret |-> NoneRet, caught |-> ld.exc]
        ELSE IF ld.exc # NoExc
        THEN [exc |-> ld.exc, ret |-> NoneRet, caught |-> NoExc]
        ELSE IF pr.exc # NoExc
        THEN [exc |-> pr.exc, ret |-> NoneRet, caught |-> NoExc]
        ELSE IF acc.exc # NoExc
        THEN [exc |-> acc.exc, ret |-> NoneRet, caught |-> NoExc]
        ELSE [exc |-> NoExc, caught |-> NoExc,
              ret |-> ResultRet(acc, classification_report(obj.test_labels.vals,
                                                           pr.labels))]

\* [exc, ret, caught]
make_prediction(obj, name, test_data, files) ==
    LET ld == LoadModel(obj.model_save_path, name, files)
        pr == Predict(ld.clf, PredictInput(obj, test_data))
        acc == accuracy_score(obj.test_labels.vals, pr.labels)
    IN  IF ld.exc # NoExc
        THEN [exc |-> NoExc, ret |-> NoneRet, caught |-> ld.exc]
        ELSE IF pr.exc # NoExc
        THEN [exc |-> pr.exc, ret |-> NoneRet, caught |-> NoExc]
        ELSE IF acc.exc # NoExc
        THEN [exc |-> acc.exc, ret |-> NoneRet, caught |-> NoExc]
        ELSE [exc |-> NoExc, caught |-> NoExc,
              ret |-> ResultRet(acc, classification_report(obj.test_labels.vals,
                                                           pr.labels))]

\* caller-provided tables: the stored features in another order, with as
\* many rows as the stored test table and with one more
TestDataArgs ==
    {NoArg} \cup {Frame(FeatureWidth, [i \in 1..k |-> Feat(i + 1)]) :
                    k \in (MaxTestData - 1)..MaxTestData}

\* saved_model_name arguments: the instance's own model name, the default
\* and one fixed name
SavedNameArgs(obj) ==
    IF obj.tag = "obj" THEN {obj.model_name, NoneV, "mnb"} ELSE {}

MakePrediction(name, test_data) ==
    /\ self.tag = "obj"
    /\ LET r == make_prediction(self, name, test_data, models)
       IN  out' = Outcome("make_prediction", name, test_data, r.exc, r.ret)
    /\ UNCHANGED <<env, rng, models, png, self, lastSplit>>

----------------------------------------------------------------------------
(* The program.                                                            *)

NoFiles == [q \in {} |-> Unset]

\* a configuration file that cannot be loaded is explored with one pair of
\* tables (they are never read), every other one with every pair
Init ==
    /\ cfgFile \in ConfigFiles
    /\ trainCsv \in TrainCsvs
    /\ testCsv \in TestCsvs
    /\ cfgFile.content.tag # "dict" =>
        /\ trainCsv = Csv(FeatureWidth + 2, TRUE, MixedRows(MaxRows))
        /\ testCsv = Csv(FeatureWidth + 1, TRUE, TestRows(MaxTestData - 1))
    /\ rng = 0
    /\ models = NoFiles
    /\ png = FALSE
    /\ self = NoInstance
    /\ out = Outcome("none", NoneV, NoArg, NoExc, NoneRet)
    /\ lastSplit = NoneRet

Next ==
    \/ \E name \in NameArgs : Construct(name)
    \/ TrainValSplit
    \/ SelectModel
    \/ TrainModel
    \/ \E name \in SavedNameArgs(self), td \in TestDataArgs : MakePrediction(name, td)

Spec == Init /\ [][Next]_vars

----------------------------------------------------------------------------
(* Properties.                                                             *)

\* reading or parsing ./config.yaml fails
ConfigFails == cfgFile.status # "ok" \/ cfgFile.content.tag # "dict"

\* a mapping with a dataset section
ValidConfig ==
    /\ cfgFile.status = "ok"
    /\ cfgFile.content.tag = "dict"
    /\ cfgFile.content.dataset # <<>>

DatasetUnset(obj) ==
    /\ obj.train_features = Unset /\ obj.train_labels = Unset /\ obj.train_df = Unset
    /\ obj.test_features = Unset /\ obj.test_labels = Unset /\ obj.test_df = Unset

TestCsvFits ==
    /\ testCsv.prognosis
    /\ testCsv.ncols - 1 = FeatureWidth
    /\ Len(testCsv.rows) > 0

FileOf(obj, name) == obj.model_save_path \o name \o ".joblib"

\* a model was persisted under the name
Persisted(obj, name) ==
    /\ obj.model_save_path # NoneV
    /\ name # NoneV
    /\ FileOf(obj, name) \in DOMAIN models

\* C1: when reading or parsing ./config.yaml fails, the constructor raises
\* nothing, config is None, verbose and model_save_path keep their defaults,
\* no dataset field is set and no file has been written.
C1_ConfigFailureDisables ==
    (out.op = "__init__" /\ ConfigFails) =>
        /\ out.exc = NoExc
        /\ self.tag = "obj"
        /\ self.config = NoneCfg
        /\ self.verbose = FALSE
        /\ self.model_save_path = NoneV
        /\ DatasetUnset(self)
        /\ png = FALSE
        /\ models = NoFiles

C1_Witness ==
    /\ out.op = "__init__"
    /\ cfgFile.status = "ok"
    /\ cfgFile.content.tag = "list"
    /\ self.tag = "obj"
    /\ self.config = NoneCfg

\* C2: with a valid configuration, a training CSV whose feature slice is 132
\* columns wide (and a test CSV that fits) loads: the constructor raises
\* nothing and the stored tables are 132 wide with a label per row.
C2_LoadSucceeds ==
    (/\ out.op = "__init__"
     /\ ValidConfig
     /\ trainCsv.prognosis
     /\ trainCsv.ncols - 2 = FeatureWidth
     /\ TestCsvFits) =>
        /\ out.exc = NoExc
        /\ self.tag = "obj"
        /\ self.train_features.width = FeatureWidth
        /\ self.test_features.width = FeatureWidth
        /\ Len(self.train_labels.vals) = Len(self.train_features.rows)
        /\ Len(self.test_labels.vals) = Len(self.test_features.rows)

\* C3: with a valid configuration, a training CSV whose feature slice is not
\* 132 columns wide makes the constructor raise AssertionError, and no
\* instance with loaded data ever exists.
C3_AssertionOnWrongWidth ==
    (/\ out.op = "__init__"
     /\ ValidConfig
     /\ trainCsv.prognosis
     /\ trainCsv.ncols - 2 # FeatureWidth) =>
        /\ out.exc = "AssertionError"
        /\ self = NoInstance

HasModelSection(config) == config.tag = "dict" /\ config.model # <<>>

\* C4: select_model raises ValueError for every name outside the four; for
\* each of the four names (the last three given their configuration entries)
\* it returns, and stores in self.clf, that name's own unfitted classifier
\* with the configured criterion and n_estimators.
C4_SelectModel ==
    (out.op = "select_model") =>
        IF out.name \notin ModelNames
        THEN out.exc = "ValueError" /\ out.ret = NoneRet
        ELSE (out.name = "mnb" \/ HasModelSection(self.config)) =>
            /\ out.exc = NoExc
            /\ self.clf = out.ret
            /\ out.ret.tag = "clf"
            /\ out.ret.fitted = <<>>
            /\ out.name = "mnb" => out.ret.kind = "MultinomialNB"
            /\ out.name = "decision_tree" =>
                /\ out.ret.kind = "DecisionTreeClassifier"
                /\ out.ret.criterion = self.config.model[1].decision_tree.criterion
            /\ out.name = "random_forest" =>
                /\ out.ret.kind = "RandomForestClassifier"
                /\ out.ret.n_estimators = self.config.model[1].random_forest.n_estimators
            /\ out.name = "gradient_boost" =>
                /\ out.ret.kind = "GradientBoostingClassifier"
                /\ out.ret.n_estimators = self.config.model[1].gradient_boost.n_estimators
                /\ out.ret.criterion = self.config.model[1].gradient_boost.criterion

C4_Witness ==
    /\ out.op = "select_model"
    /\ out.name = "random_forest"
    /\ out.exc = NoExc
    /\ out.ret.kind = "RandomForestClassifier"

ValidAccuracy(acc) == 0 <= acc[1] /\ acc[1] <= acc[2] /\ acc[2] > 0

\* C5: a train_model call that completes has written the fitted classifier
\* to model_save_path + model_name + ".joblib"; and make_prediction on the
\* default test data, under a name that was persisted (by this instance or an
\* earlier one), raises nothing and returns an accuracy in [0,1] with a
\* non-empty report, never None.
C5_RoundTrip ==
    /\ (out.op = "train_model" /\ out.exc = NoExc) =>
        /\ Persisted(self, self.model_name)
        /\ models[FileOf(self, self.model_name)] = self.clf
        /\ self.clf.fitted # <<>>
    /\ (out.op = "make_prediction" /\ out.data = NoArg /\ Persisted(self, out.name)) =>
        /\ out.exc = NoExc
        /\ out.ret.tag = "result"
        /\ ValidAccuracy(out.ret.accuracy)
        /\ out.ret.report # {}

\* an instance that never trained predicts from the file an earlier one wrote
C5_Witness ==
    /\ out.op = "make_prediction"
    /\ out.data = NoArg
    /\ out.name = "decision_tree"
    /\ out.ret.tag = "result"
    /\ self.clf = Unset

\* C6: a make_prediction call under a name with no persisted model (the
\* default None and an unset model_save_path included) raises nothing,
\* returns None and changes no instance field and no file.
C6_MissingModelReturnsNone ==
    [][(/\ out'.op = "make_prediction"
        /\ self.tag = "obj"
        /\ ~Persisted(self, out'.name)) =>
            /\ out'.exc = NoExc
            /\ out'.ret = NoneRet
            /\ self' = self
            /\ models' = models
            /\ png' = png]_vars

C6_Witness ==
    /\ out.op = "make_prediction"
    /\ out.name = NoneV
    /\ self.model_save_path # NoneV
    /\ models # NoFiles
    /\ out.exc = NoExc
    /\ out.ret = NoneRet

\* what make_prediction returns for the table X, given the reloaded
\* classifier: the matches of its predictions with the stored test labels
ReturnsScoreOver(X) ==
    LET clf == models[FileOf(self, out.name)]
        y == self.test_labels.vals
        pred == [i \in 1..Len(X.rows) |-> clf.fitted[1][X.rows[i]]]
    IN  /\ out.exc = NoExc
        /\ out.ret.tag = "result"
        /\ Len(pred) = Len(y)
        /\ out.ret.accuracy = <<Cardinality({i \in 1..Len(y) : pred[i] = y[i]}), Len(y)>>
        /\ \A line \in out.ret.report :
            /\ line.support = Count(y, line.label)
            /\ line.predicted = Count(pred, line.label)
        /\ {line.label : line \in out.ret.report} = Range(y) \cup Range(pred)

PredictedOver == IF out.data # NoArg THEN out.data ELSE self.test_features

\* C7 as stated: once the classifier is reloaded, make_prediction returns
\* accuracy and report over test_data if given, else over the stored test
\* features, whatever the number of rows of test_data.
C7_AnyTestData ==
    (out.op = "make_prediction" /\ Persisted(self, out.name)) =>
        ReturnsScoreOver(PredictedOver)

\* C7 amended: it does so when the table predicted over has as many rows as
\* there are stored test labels; for any other number of rows the call
\* raises ValueError.
C7_SameLengthTestData ==
    (out.op = "make_prediction" /\ Persisted(self, out.name)) =>
        IF Len(PredictedOver.rows) = Len(self.test_labels.vals)
        THEN ReturnsScoreOver(PredictedOver)
        ELSE out.exc = "ValueError" /\ out.ret = NoneRet

C7_Witness ==
    /\ out.op = "make_prediction"
    /\ out.data # NoArg
    /\ out.ret.tag = "result"
    /\ out.ret.accuracy[1] > 0

Fitted(clf) == clf # Unset /\ clf.fitted # <<>>

\* C8: the lifecycle is ordered (data is loaded only on a configured
\* instance, a classifier is fitted only on loaded data, every persisted file
\* holds a fitted classifier, a prediction result comes only from a persisted
\* file), and after a failed config load nothing leaves the unconfigured
\* state: config stays None, no dataset field is set, no classifier is
\* fitted, no model file exists, train_model never completes and no call
\* returns a prediction result.
C8_Lifecycle ==
    /\ self.tag = "obj" =>
        /\ ~DatasetUnset(self) => Truthy(self.config)
        /\ Fitted(self.clf) => ~DatasetUnset(self)
        /\ out.ret.tag = "result" => Persisted(self, out.name)
    /\ \A q \in DOMAIN models : Fitted(models[q])
    /\ (ConfigFails /\ self.tag = "obj") =>
        /\ self.config = NoneCfg
        /\ DatasetUnset(self)
        /\ ~Fitted(self.clf)
        /\ models = NoFiles
        /\ out.ret.tag # "result"
        /\ out.op \in {"train_model", "_train_val_split"} => out.exc # NoExc

\* train_model on an instance whose config load failed
C8_Witness ==
    /\ ConfigFails
    /\ self.tag = "obj"
    /\ out.op = "train_model"
    /\ out.exc = "AttributeError"
    /\ self.model_name = "mnb"

\* C9 as stated: a _train_val_split call changes no instance field and
\* returns what the previous call returned (configuration and stored
\* training data being the same), whether random_state is present or absent.
C9_SplitPure ==
    [][TrainValSplit =>
        /\ self' = self
        /\ (out'.exc = NoExc /\ lastSplit # NoneRet) => out'.ret = lastSplit]_vars

\* C9 amended: it does so when the configuration holds a random_state; with
\* random_state absent the shuffle draws from the process-global random
\* state and two calls may return different subsets.
C9_SplitPureSeeded ==
    [][TrainValSplit =>
        /\ self' = self
        /\ (/\ out'.exc = NoExc
            /\ lastSplit # NoneRet
            /\ self.config.random_state # <<>>) => out'.ret = lastSplit]_vars

\* a second call under a configured seed returned the same split again
C9_Witness ==
    /\ out.op = "_train_val_split"
    /\ out.exc = NoExc
    /\ out.data # NoneRet
    /\ out.ret = out.data
    /\ self.config.random_state # <<>>
    /\ Len(out.ret.X_val.rows) >= CvFolds

\* C10: a train_model call that raises leaves the persisted files as they
\* were; one that completes writes the file of its own model name and
\* leaves every other file as it was.
C10_PersistLast ==
    [][TrainModel =>
        LET path == FileOf(self, self.model_name)
        IN  /\ out'.exc # NoExc => models' = models
            /\ out'.exc = NoExc =>
                /\ DOMAIN models' = DOMAIN models \cup {path}
                /\ \A q \in DOMAIN models \ {path} : models'[q] = models[q]]_vars

\* a completed train_model beside the file of another name
C10_Witness ==
    /\ out.op = "train_model"
    /\ out.exc = NoExc
    /\ Cardinality(DOMAIN models) >= 2

====
